---- MODULE Spec2Model ----
(***************************************************************************)
(* A model of the reverse-mode automatic-differentiation engine of         *)
(* autograd-rs: dense 2-D tensors (src/src/tensor.rs), the gradient nodes  *)
(* and the recursive backward pass (src/src/operations.rs).                *)
(*                                                                         *)
(* Numbers.  The program computes in f64.  The model computes in exact     *)
(* rationals [num, den] (den > 0, lowest terms): every value the bounded   *)
(* inputs produce is a small integer or a small fraction, all of which the *)
(* model represents exactly; rounding is outside the model.                *)
(*                                                                         *)
(* Graph.  A Tensor is a record [size, data, gradient] whose gradient      *)
(* field is the index of a shared Gradient record in the arena `nodes`     *)
(* (the Rc<RefCell<Gradient>> of the program).  The tensors a Gradient     *)
(* holds (its accumulated value and its cached last) are kept as plain     *)
(* matrices [size, data]: the gradient nodes of those helper tensors are   *)
(* never read by the program.                                              *)
(***************************************************************************)
EXTENDS Integers, Sequences, FiniteSets, TLC

----------------------------------------------------------------------------
(* Bounds of the model *)

\* largest number of rows and of columns of a leaf tensor
MaxDim == 2
\* largest number of tensors one run of the graph specifications creates
MaxNodes == 4
\* largest exponent handed to pow
MaxExp == 3

----------------------------------------------------------------------------
(* Exact arithmetic standing for f64 *)

Abs(x) == IF x < 0 THEN -x ELSE x

RECURSIVE GCD(_, _)
GCD(a, b) == IF b = 0 THEN a ELSE GCD(b, a % b)

\* the fraction n/d (d > 0) in lowest terms
Norm(n, d) ==
    LET g == GCD(Abs(n), d)
    IN  [num |-> n \div g, den |-> d \div g]

\* an integer as a number of the model
R(n) == [num |-> n, den |-> 1]

RAdd(x, y) == Norm(x.num * y.den + y.num * x.den, x.den * y.den)
RNeg(x) == [num |-> -x.num, den |-> x.den]
RSub(x, y) == RAdd(x, RNeg(y))
RMul(x, y) == Norm(x.num * y.num, x.den * y.den)
\* x / k for a positive count k
RDivInt(x, k) == Norm(x.num, x.den * k)
RGe0(x) == x.num >= 0

\* x^e for a natural e: f64::powi(e), and f64::powf(e as f64) on the same inputs
RECURSIVE RPow(_, _)
RPow(x, e) == IF e = 0 THEN R(1) ELSE RMul(x, RPow(x, e - 1))

\* the sum of f[1] .. f[k]
RECURSIVE RSum(_, _)
RSum(f, k) == IF k = 0 THEN R(0) ELSE RAdd(RSum(f, k - 1), f[k])

----------------------------------------------------------------------------
(* Dense matrices: the size and data fields of a Tensor *)

EmptyMat == [size |-> <<0, 0>>, data |-> <<>>]

\* (rows, cols) of a vector of rows
SizeOf(data) ==
    IF Len(data) = 0 THEN <<0, 0>>
    ELSE IF Len(data[1]) = 0 THEN <<0, 0>>
    ELSE <<Len(data), Len(data[1])>>

\* Tensor::from_vector, the value part
FromVector(data) == [size |-> SizeOf(data), data |-> data]

\* Tensor::fill, the value part
Fill(m, n, v) == [size |-> <<m, n>>, data |-> [i \in 1..m |-> [j \in 1..n |-> v]]]

Zeros(m, n) == Fill(m, n, R(0))
Ones(m, n) == Fill(m, n, R(1))
Singleton(v) == Fill(1, 1, v)

\* every index (i, j) below the size is an index of the data: what
\* Index::index and Vec's own bounds check require of each access t[i][j]
InBounds(t) ==
    /\ Len(t.data) >= t.size[1]
    /\ \A i \in 1..t.size[1] : Len(t.data[i]) >= t.size[2]

\* Tensor::num_elements
NumElements(t) == t.size[1] * t.size[2]

\* Transpose that returns the tensor as it is
Transpose_Same(t) == t

\* Tensor::transpose, the value part
Transpose(t) ==
    LET m == t.size[1]
        n == t.size[2]
    IN  [size |-> <<n, m>>,
         data |-> [i \in 1..n |-> [j \in 1..m |-> t.data[j][i]]]]

\* Tensor::apply, the value part: fun(i, j, self) in every cell
Apply(t, fun(_, _, _)) ==
    LET m == t.size[1]
        n == t.size[2]
    IN  [size |-> <<m, n>>,
         data |-> [i \in 1..m |-> [j \in 1..n |-> fun(i, j, t)]]]

\* the data of -a
NegData(a) ==
    [i \in 1..a.size[1] |-> [j \in 1..a.size[2] |-> RNeg(a.data[i][j])]]

\* the data of a + b
AddData(a, b) ==
    [i \in 1..a.size[1] |-> [j \in 1..a.size[2] |->
        RAdd(a.data[i][j], b.data[i][j])]]

\* the data of a - b
SubData(a, b) ==
    [i \in 1..a.size[1] |-> [j \in 1..a.size[2] |->
        RSub(a.data[i][j], b.data[i][j])]]

\* the data of a * b: the triple loop over (i, j, k)
MulData(a, b) ==
    [i \in 1..a.size[1] |-> [j \in 1..b.size[2] |->
        RSum([k \in 1..a.size[2] |-> RMul(a.data[i][k], b.data[k][j])],
             a.size[2])]]

\* the data of a * c for an f64 c
ScaleData(a, c) ==
    [i \in 1..a.size[1] |-> [j \in 1..a.size[2] |-> RMul(a.data[i][j], c)]]

\* the data of a.relu()
ReluData(a) ==
    [i \in 1..a.size[1] |-> [j \in 1..a.size[2] |->
        IF RGe0(a.data[i][j]) THEN a.data[i][j] ELSE R(0)]]

\* the data of a.pow(exp)
PowData(a, exp) ==
    [i \in 1..a.size[1] |-> [j \in 1..a.size[2] |-> RPow(a.data[i][j], exp)]]

\* the data of a.mean(): one cell, the sum of all cells over their number
MeanData(a) ==
    LET n == a.size[2]
        rowSum(i) == RSum([j \in 1..n |-> a.data[i][j]], n)
        sum == RSum([i \in 1..a.size[1] |-> rowSum(i)], a.size[1])
    IN  <<<<RDivInt(sum, NumElements(a))>>>>

\* the tensor c * t of `learning_rate * parameter.grad()`
Scale(t, c) == [size |-> t.size, data |-> ScaleData(t, c)]

\* PartialEq: the sizes, then every cell
TensorEq(a, b) ==
    /\ a.size = b.size
    /\ \A i \in 1..a.size[1] : \A j \in 1..a.size[2] :
          a.data[i][j] = b.data[i][j]

----------------------------------------------------------------------------
(* The state of the program *)

VARIABLES
    nodes,      \* the arena of Gradient records; a Tensor's gradient field indexes it
    tensors,    \* the tensors the caller holds, in the order it made them
    stack,      \* the live calls of backward, outermost first
    log,        \* the lines printed, in order: g for the "BACKWARD:" line of node g,
                \* -g for with_grad's "already has grad enabled" about node g
    err,        \* "ok", or "panic" once a call has aborted the program
    pc          \* the caller's position in a scripted scenario (0 outside one)

vars == <<nodes, tensors, stack, log, err, pc>>

\* Option<Tensor>
NoneOpt == [some |-> FALSE, t |-> EmptyMat]
Some(t) == [some |-> TRUE, t |-> [size |-> t.size, data |-> t.data]]

\* a tensor-typed slot that holds nothing (the unused operands of a tag)
NoTensor == [size |-> <<0, 0>>, data |-> <<>>, gradient |-> 0]

\* GradientOperation: the tag and the operand tensors it captured
OpNone == [tag |-> "None", a |-> NoTensor, b |-> NoTensor, exp |-> 0]
Unary(tag, a) == [tag |-> tag, a |-> a, b |-> NoTensor, exp |-> 0]
Binary(tag, a, b) == [tag |-> tag, a |-> a, b |-> b, exp |-> 0]
OpPow(a, e) == [tag |-> "Pow", a |-> a, b |-> NoTensor, exp |-> e]

\* impl Default for Gradient
GradientDefault == [operation |-> OpNone, last |-> NoneOpt, value |-> NoneOpt]

\* Clone for Tensor: a copy of the value that shares the gradient node
Clone(t) == [size |-> t.size, data |-> t.data, gradient |-> t.gradient]

\* the operands of a tag, in the order backward handles them
Parents(op) ==
    IF op.tag = "None" THEN <<>>
    ELSE IF op.tag \in {"Add", "Sub", "Mul"} THEN <<op.a, op.b>>
    ELSE <<op.a>>

\* Produced with the first operand copy of the tag on the new node itself
Produced_OwnOperand(ns, data, size, op) ==
    [tensor |-> [size |-> size, data |-> data, gradient |-> Len(ns) + 1],
     node   |-> [operation |-> [op EXCEPT !.a.gradient = Len(ns) + 1],
                 last      |-> Some(FromVector(data)),
                 value     |-> Some(Fill(size[1], size[2], R(0)))]]

\* Produced with the gradient started at the forward data instead of zeros
Produced_GradFromData(ns, data, size, op) ==
    [tensor |-> [size |-> size, data |-> data, gradient |-> Len(ns) + 1],
     node   |-> [operation |-> op,
                 last      |-> Some(FromVector(data)),
                 value     |-> Some(FromVector(data))]]

\* The tensor an operation returns and the Gradient it wraps for it: the
\* tensor's node is a new one, appended to the arena `ns`
Produced(ns, data, size, op) ==
    [tensor |-> [size |-> size, data |-> data, gradient |-> Len(ns) + 1],
     node   |-> [operation |-> op,
                 last      |-> Some(FromVector(data)),
                 value     |-> Some(Fill(size[1], size[2], R(0)))]]

\* a constructor's tensor: a new node without gradient tracking
Constructed(ns, mat) ==
    [tensor |-> [size |-> mat.size, data |-> mat.data, gradient |-> Len(ns) + 1],
     node   |-> GradientDefault]

\* Neg for &Tensor
NegPanics(self) == ~InBounds(self)
NegT(ns, self) ==
    Produced(ns, NegData(self), self.size, Unary("Neg", Clone(self)))

\* AddPanics that lets a smaller left operand through
AddPanics_Fits(self, right) ==
    \/ self.size[1] > right.size[1]
    \/ self.size[2] > right.size[2]
    \/ ~InBounds(self)
    \/ ~InBounds(right)

\* Add<&Tensor> for &Tensor
AddPanics(self, right) ==
    \/ self.size # right.size
    \/ ~InBounds(self)
    \/ ~InBounds(right)
\* AddT with both operand copies on the node of the first tensor made
AddT_OperandsElsewhere(ns, self, right) ==
    Produced(ns, AddData(self, right), self.size,
             Binary("Add", [Clone(self) EXCEPT !.gradient = 1],
                           [Clone(right) EXCEPT !.gradient = 1]))

AddT(ns, self, right) ==
    Produced(ns, AddData(self, right), self.size,
             Binary("Add", Clone(self), Clone(right)))

\* Sub<&Tensor> for &Tensor
SubPanics(self, right) ==
    \/ self.size[2] # right.size[2]
    \/ self.size # right.size
    \/ ~InBounds(self)
    \/ ~InBounds(right)
SubT(ns, self, right) ==
    Produced(ns, SubData(self, right), self.size,
             Binary("Sub", Clone(self), Clone(right)))

\* Mul<&Tensor> for &Tensor: [m x n_1][n_2 x p] => [m x p]
MulPanics(self, right) ==
    \/ self.size[2] # right.size[1]
    \/ ~InBounds(self)
    \/ ~InBounds(right)
MulT(ns, self, right) ==
    Produced(ns, MulData(self, right), <<self.size[1], right.size[2]>>,
             Binary("Mul", Clone(self), Clone(right)))

\* Differentiable::relu
ReluPanics(self) == ~InBounds(self)
ReluT(ns, self) ==
    Produced(ns, ReluData(self), self.size, Unary("ReLU", Clone(self)))

\* Differentiable::mean: the data is the one mean cell, the size stays (m, n)
MeanPanics(self) == ~InBounds(self)
MeanT(ns, self) ==
    Produced(ns, MeanData(self), self.size, Unary("Mean", Clone(self)))

\* Differentiable::pow
PowPanics(self, exp) == ~InBounds(self)
PowT(ns, self, exp) ==
    Produced(ns, PowData(self, exp), self.size, OpPow(Clone(self), exp))

\* WithGradNode that starts the gradient over on every call
WithGradNode_Reset(node, self) ==
    [node EXCEPT !.value = Some(Zeros(self.size[1], self.size[2])),
                 !.last = Some(FromVector(self.data))]

\* Differentiable::with_grad: the node of `self` afterwards
WithGradNode(node, self) ==
    IF node.value.some THEN node
    ELSE [node EXCEPT !.value = Some(Zeros(self.size[1], self.size[2])),
                      !.last = Some(FromVector(self.data))]

\* Differentiable::set_grad: the arena afterwards
SetGradNodes(ns, self, grad) ==
    [ns EXCEPT ![self.gradient].value = Some(grad)]

\* Differentiable::last
Last(ns, self) ==
    IF ns[self.gradient].last.some THEN ns[self.gradient].last.t
    ELSE [size |-> self.size, data |-> self.data]

----------------------------------------------------------------------------
(* The backward pass: Differentiable::backward and what it calls *)

\* the outcome of an expression that may abort: the tensor, or a panic
Ok(t) == [ok |-> TRUE, t |-> t]
Panic == [ok |-> FALSE, t |-> EmptyMat]

\* Mul<Tensor> for Tensor on two value tensors
TryMul(a, b) ==
    IF a.size[2] # b.size[1] THEN Panic
    ELSE Ok([size |-> <<a.size[1], b.size[2]>>, data |-> MulData(a, b)])

\* -grad.clone()
NegPartial(grad) == Ok([size |-> grad.size, data |-> NegData(grad)])

\* grad.clone()
SamePartial(grad) == Ok(grad)

\* MulPartialA with the factor b_last forgotten
MulPartialA_NoFactor(grad, b_last) == Ok(grad)

\* a_partial of the Mul arm: grad.clone() * b_last.transpose()
MulPartialA(grad, b_last) == TryMul(grad, Transpose(b_last))

\* b_partial of the Mul arm: (grad.clone() * a_last).transpose()
MulPartialB(grad, a_last) ==
    LET r == TryMul(grad, a_last)
    IN  IF r.ok THEN Ok(Transpose(r.t)) ELSE Panic

\* ReluPartial with the comparison > 0.0 in place of >= 0.0
ReluPartial_Strict(grad, a_last) ==
    IF \E i \in 1..a_last.size[1] : \E j \in 1..a_last.size[2] :
          /\ a_last.data[i][j].num > 0
          /\ ~(i <= grad.size[1] /\ j <= grad.size[2])
    THEN Panic
    ELSE Ok(Apply(a_last, LAMBDA i, j, last :
                IF last.data[i][j].num > 0 THEN grad.data[i][j] ELSE R(0)))

\* the ReLU arm's tensor: grad[i][j] where last[i][j] >= 0, else 0; the
\* closure indexes grad only in the cells whose last is >= 0
ReluPartial(grad, a_last) ==
    IF \E i \in 1..a_last.size[1] : \E j \in 1..a_last.size[2] :
          /\ RGe0(a_last.data[i][j])
          /\ ~(i <= grad.size[1] /\ j <= grad.size[2])
    THEN Panic
    ELSE Ok(Apply(a_last, LAMBDA i, j, last :
                IF RGe0(last.data[i][j]) THEN grad.data[i][j] ELSE R(0)))

\* the Pow arm's tensor: b * last[i][j]^(b - 1)
PowPartial(grad, a_last, b) ==
    Ok(Apply(a_last, LAMBDA i, j, last :
            RMul(R(b), RPow(last.data[i][j], b - 1))))

\* the Mean arm's tensor: last[i][j] / denominator
MeanPartial(grad, a_last) ==
    LET denominator == NumElements(a_last)
    IN  Ok(Apply(a_last, LAMBDA i, j, last :
            RDivInt(last.data[i][j], denominator)))

\* AddGrad storing the partial in place of the sum
AddGrad_Overwrite(ns, self, grad) ==
    LET value == ns[self.gradient].value
    IN  IF ~value.some THEN [ok |-> TRUE, nodes |-> ns]
        ELSE IF value.t.size # grad.size THEN [ok |-> FALSE, nodes |-> ns]
        ELSE [ok |-> TRUE,
              nodes |-> [ns EXCEPT ![self.gradient].value = Some(grad)]]

\* Differentiable::add_grad on the arena ns: value + grad where a value is
\* there (the sum asserts equal sizes), nothing where gradient tracking is off
AddGrad(ns, self, grad) ==
    LET value == ns[self.gradient].value
    IN  IF ~value.some THEN [ok |-> TRUE, nodes |-> ns]
        ELSE IF value.t.size # grad.size THEN [ok |-> FALSE, nodes |-> ns]
        ELSE [ok |-> TRUE,
              nodes |-> [ns EXCEPT ![self.gradient].value =
                            Some([size |-> value.t.size,
                                  data |-> AddData(value.t, grad)])]]

\* one `x.add_grad(<partial>)` statement after the statements that gave r:
\* skipped when one of them aborted, aborting when the partial does
ThenAddGrad(r, self, partial) ==
    IF ~r.ok THEN r
    ELSE IF ~partial.ok THEN [ok |-> FALSE, nodes |-> r.nodes]
    ELSE AddGrad(r.nodes, self, partial.t)

\* The arm of backward's match for node g, up to its first recursive call:
\* the add_grad statements in program order
Arm(ns, g) ==
    LET grad == ns[g].value.t
        op == ns[g].operation
        a == op.a
        b == op.b
        start == [ok |-> TRUE, nodes |-> ns]
    IN  CASE op.tag = "None" -> start
          [] op.tag = "Neg" -> ThenAddGrad(start, a, NegPartial(grad))
          [] op.tag = "Add" ->
                ThenAddGrad(ThenAddGrad(start, a, SamePartial(grad)),
                            b, SamePartial(grad))
          [] op.tag = "Sub" ->
                ThenAddGrad(ThenAddGrad(start, a, SamePartial(grad)),
                            b, NegPartial(grad))
          [] op.tag = "Mul" ->
                LET a_last == Last(ns, a)
                    b_last == Last(ns, b)
                IN  ThenAddGrad(ThenAddGrad(start, a, MulPartialA(grad, b_last)),
                                b, MulPartialB(grad, a_last))
          [] op.tag = "ReLU" ->
                ThenAddGrad(start, a, ReluPartial(grad, Last(ns, a)))
          [] op.tag = "Pow" ->
                ThenAddGrad(start, a, PowPartial(grad, Last(ns, a), op.exp))
          [] op.tag = "Mean" ->
                ThenAddGrad(start, a, MeanPartial(grad, Last(ns, a)))

\* A call of backward on the tensor of node g, made on the arena ns with the
\* calls stk live, run up to its first recursive call: self.grad() and the
\* unwrap of last abort on a node that lacks them, the "BACKWARD:" line is
\* printed, and the arm adds the partials into the parents
Enter(ns, g, stk) ==
    IF ~ns[g].value.some \/ ~ns[g].last.some
    THEN /\ err' = "panic"
         /\ stack' = stk
         /\ nodes' = ns
         /\ log' = log
    ELSE LET r == Arm(ns, g)
         IN  /\ log' = Append(log, g)
             /\ nodes' = r.nodes
             /\ err' = IF r.ok THEN "ok" ELSE "panic"
             /\ stack' = IF r.ok THEN Append(stk, [g |-> g, pc |-> 1]) ELSE stk

\* the program is running and no call of backward is live
Idle == err = "ok" /\ stack = <<>>

\* t.backward(), called by the caller on its i-th tensor
Backward(i) ==
    /\ Idle
    /\ i \in 1..Len(tensors)
    /\ Enter(nodes, tensors[i].gradient, <<>>)
    /\ UNCHANGED tensors

\* SeedBackward without the set_grad
SeedBackward_NoSeed(i, grad) == Backward(i)

\* t.set_grad(grad); t.backward(): how the tests start a pass, and (with
\* grad = singleton(1)) the body of Module::backward
SeedBackward(i, grad) ==
    /\ Idle
    /\ i \in 1..Len(tensors)
    /\ Enter(SetGradNodes(nodes, tensors[i], grad), tensors[i].gradient, <<>>)
    /\ UNCHANGED tensors

\* the innermost live call makes its next recursive call, a.backward() or
\* b.backward()
Descend ==
    /\ err = "ok"
    /\ stack # <<>>
    /\ LET top == stack[Len(stack)]
           ps == Parents(nodes[top.g].operation)
       IN  /\ top.pc <= Len(ps)
           /\ Enter(nodes, ps[top.pc].gradient,
                    [stack EXCEPT ![Len(stack)].pc = top.pc + 1])
    /\ UNCHANGED <<tensors, pc>>

\* the innermost live call has made all its recursive calls and returns
Return ==
    /\ err = "ok"
    /\ stack # <<>>
    /\ LET top == stack[Len(stack)]
       IN  top.pc > Len(Parents(nodes[top.g].operation))
    /\ stack' = SubSeq(stack, 1, Len(stack) - 1)
    /\ UNCHANGED <<nodes, tensors, log, err, pc>>

----------------------------------------------------------------------------
(* The caller's operations on the tensors it holds *)

\* the call returned a tensor: the caller holds it, its node joins the arena
Push(r) ==
    /\ nodes' = Append(nodes, r.node)
    /\ tensors' = Append(tensors, r.tensor)
    /\ UNCHANGED <<stack, log, err>>

\* the call aborted the program
Abort ==
    /\ err' = "panic"
    /\ UNCHANGED <<nodes, tensors, stack, log>>

\* Tensor::from_vector(..).with_grad(), Tensor::singleton(v).with_grad(): a
\* gradient-enabled leaf
LeafWithGrad(mat) ==
    /\ Idle
    /\ LET c == Constructed(nodes, mat)
       IN  Push([tensor |-> c.tensor, node |-> WithGradNode(c.node, c.tensor)])

\* t.set_grad(grad) on the caller's i-th tensor
SetGrad(i, grad) ==
    /\ Idle
    /\ i \in 1..Len(tensors)
    /\ nodes' = SetGradNodes(nodes, tensors[i], grad)
    /\ UNCHANGED <<tensors, stack, log, err>>

\* -&t
NegOp(i) ==
    /\ Idle
    /\ i \in 1..Len(tensors)
    /\ IF NegPanics(tensors[i]) THEN Abort
       ELSE Push(NegT(nodes, tensors[i]))

\* &t + &u
AddOp(i, j) ==
    /\ Idle
    /\ {i, j} \subseteq 1..Len(tensors)
    /\ IF AddPanics(tensors[i], tensors[j]) THEN Abort
       ELSE Push(AddT(nodes, tensors[i], tensors[j]))

\* &t - &u
SubOp(i, j) ==
    /\ Idle
    /\ {i, j} \subseteq 1..Len(tensors)
    /\ IF SubPanics(tensors[i], tensors[j]) THEN Abort
       ELSE Push(SubT(nodes, tensors[i], tensors[j]))

\* &t * &u
MulOp(i, j) ==
    /\ Idle
    /\ {i, j} \subseteq 1..Len(tensors)
    /\ IF MulPanics(tensors[i], tensors[j]) THEN Abort
       ELSE Push(MulT(nodes, tensors[i], tensors[j]))

\* t.relu()
ReluOp(i) ==
    /\ Idle
    /\ i \in 1..Len(tensors)
    /\ IF ReluPanics(tensors[i]) THEN Abort
       ELSE Push(ReluT(nodes, tensors[i]))

\* t.mean()
MeanOp(i) ==
    /\ Idle
    /\ i \in 1..Len(tensors)
    /\ IF MeanPanics(tensors[i]) THEN Abort
       ELSE Push(MeanT(nodes, tensors[i]))

\* t.pow(exp)
PowOp(i, exp) ==
    /\ Idle
    /\ i \in 1..Len(tensors)
    /\ IF PowPanics(tensors[i], exp) THEN Abort
       ELSE Push(PowT(nodes, tensors[i], exp))

----------------------------------------------------------------------------
(* Specification Spec: graphs of 1x1 tensors.  The caller makes up to       *)
(* MaxNodes tensors, gradient-enabled leaves and Neg/Add/Sub/Mul results   *)
(* of tensors it already holds, then seeds one of them and runs one        *)
(* backward pass from it.                                                  *)

\* the values of the leaves and of the seed
LeafVals == {2, -3}
SeedVals == {1, 2}

Init ==
    /\ nodes = <<>>
    /\ tensors = <<>>
    /\ stack = <<>>
    /\ log = <<>>
    /\ err = "ok"
    /\ pc = 0

\* the caller is still building the graph
Building == pc = 0 /\ Len(tensors) < MaxNodes /\ pc' = 0

NewLeaf == \E v \in LeafVals : Building /\ LeafWithGrad(Singleton(R(v)))
NewNeg == \E i \in 1..Len(tensors) : Building /\ NegOp(i)
NewAdd == \E i, j \in 1..Len(tensors) : Building /\ AddOp(i, j)
NewSub == \E i, j \in 1..Len(tensors) : Building /\ SubOp(i, j)
NewMul == \E i, j \in 1..Len(tensors) : Building /\ MulOp(i, j)
StartPass ==
    \E i \in 1..Len(tensors) : \E v \in SeedVals :
        pc = 0 /\ SeedBackward(i, Singleton(R(v))) /\ pc' = 1

Next ==
    \/ NewLeaf
    \/ NewNeg
    \/ NewAdd
    \/ NewSub
    \/ NewMul
    \/ StartPass
    \/ Descend
    \/ Return

Spec == Init /\ [][Next]_vars

----------------------------------------------------------------------------
(* The chain rule, as the reference the backward pass is compared with *)

MatAdd(x, y) == [size |-> x.size, data |-> AddData(x, y)]
MatNeg(x) == [size |-> x.size, data |-> NegData(x)]
MatMul(x, y) == [size |-> <<x.size[1], y.size[2]>>, data |-> MulData(x, y)]
ValueOf(t) == [size |-> t.size, data |-> t.data]

\* the node ids of the operands of node c
ParentIds(c) ==
    LET ps == Parents(nodes[c].operation)
    IN  {ps[k].gradient : k \in 1..Len(ps)}

\* the nodes backward can reach from node r: r and its ancestors
RECURSIVE Reach(_)
Reach(r) == {r} \cup UNION {Reach(p) : p \in ParentIds(r)}

\* the operations reachable from r that have node n as an operand
Consumers(n, r) == {c \in Reach(r) : n \in ParentIds(c)}

\* the local derivative of operation c in its k-th operand, applied to the
\* gradient dy of c: -dy for Neg; dy, dy for Add; dy, -dy for Sub;
\* dy * transpose(b), transpose(a) * dy for Mul
LocalPartial(c, k, dy) ==
    LET op == nodes[c].operation
    IN  CASE op.tag = "Neg" -> MatNeg(dy)
          [] op.tag = "Add" -> dy
          [] op.tag = "Sub" -> IF k = 1 THEN dy ELSE MatNeg(dy)
          [] op.tag = "Mul" ->
                IF k = 1 THEN MatMul(dy, Transpose(ValueOf(op.b)))
                ELSE MatMul(Transpose(ValueOf(op.a)), dy)

\* what operation c owes operand node n, given c's gradient dy: the sum of
\* the local partials over the operand positions that hold n
RECURSIVE OwedFrom(_, _, _, _)
OwedFrom(c, n, dy, k) ==
    LET ps == Parents(nodes[c].operation)
        zero == Zeros(nodes[n].value.t.size[1], nodes[n].value.t.size[2])
    IN  IF k > Len(ps) THEN zero
        ELSE IF ps[k].gradient = n
             THEN MatAdd(LocalPartial(c, k, dy), OwedFrom(c, n, dy, k + 1))
             ELSE OwedFrom(c, n, dy, k + 1)

\* The gradient of node n in a pass from root r seeded with nodes[r].value:
\* the sum, over the operations c built after n up to r, of what c owes n
\* given c's own chain-rule gradient (zero for an operation r does not reach)
RECURSIVE ChainRule(_, _)
RECURSIVE ChainRuleFrom(_, _, _)
ChainRule(n, r) ==
    IF n = r THEN nodes[r].value.t ELSE ChainRuleFrom(n, r, n + 1)
ChainRuleFrom(n, r, c) ==
    IF c > r THEN Zeros(nodes[n].value.t.size[1], nodes[n].value.t.size[2])
    ELSE IF n \in ParentIds(c)
         THEN MatAdd(OwedFrom(c, n, ChainRule(c, r), 1), ChainRuleFrom(n, r, c + 1))
         ELSE ChainRuleFrom(n, r, c + 1)

\* the one backward pass of Spec has returned to the caller
PassDone == pc = 1 /\ stack = <<>> /\ err = "ok" /\ log # <<>>

\* the node the pass started from
Root == log[1]

\* the positions of log at which node n is entered
Entries(n) == {k \in 1..Len(log) : log[k] = n}

----------------------------------------------------------------------------
(* Claims settled under Spec *)

\* C2: when a tensor t is an operand of exactly two distinct operations that
\* lead to the root (once in each), then after the pass from the seeded root
\* t's gradient is the sum of the two partials: what each of the two
\* operations owes t given the gradient that operation ended with.
C2_DiamondSum ==
    PassDone =>
        \A t \in 1..Len(nodes) :
            \A c1, c2 \in Consumers(t, Root) :
                (/\ c1 < c2
                 /\ Consumers(t, Root) = {c1, c2}
                 /\ \A c \in {c1, c2} :
                       Cardinality({k \in 1..Len(Parents(nodes[c].operation)) :
                           Parents(nodes[c].operation)[k].gradient = t}) = 1)
                => nodes[t].value.t =
                      MatAdd(OwedFrom(c1, t, nodes[c1].value.t, 1),
                             OwedFrom(c2, t, nodes[c2].value.t, 1))

\* C3: after one backward pass from the seeded root over a DAG of
\* Neg/Add/Sub/Mul nodes, every node built up to the root holds the
\* chain-rule gradient: the sum over all root-to-node paths of the products
\* of the local derivatives.
C3_FinalSumsAreChainRule ==
    PassDone =>
        \A n \in 1..Root : nodes[n].value.t = ChainRule(n, Root)

\* C4: whenever backward enters an operation node n that has several
\* consumers leading to the root, every one of those consumers has been
\* entered before (and so has added its contribution to n) by the time n is
\* first entered and propagates to its own parents.
C4_ContributionsBeforePropagation ==
    (pc = 1 /\ log # <<>>) =>
        \A k \in 1..Len(log) :
            LET n == log[k]
            IN  (/\ nodes[n].operation.tag # "None"
                 /\ \A k2 \in 1..(k - 1) : log[k2] # n
                 /\ Cardinality(Consumers(n, Root)) >= 2)
                => \A c \in Consumers(n, Root) :
                      \E k2 \in 1..(k - 1) : log[k2] = c


----------------------------------------------------------------------------
(* Specification SpecChain: the scenario of the test small_computation_graph *)
(* y = f * ((a * b) + c), statement by statement, for leaf values drawn     *)
(* from ChainVals; pc is the number of the next statement.                  *)

ChainVals == {1, 2, 10, -2}

ChainInit ==
    /\ nodes = <<>>
    /\ tensors = <<>>
    /\ stack = <<>>
    /\ log = <<>>
    /\ err = "ok"
    /\ pc = 1

\* let a, b, c, f = Tensor::singleton(v).with_grad(): tensors 1, 2, 4, 6
ChainLeaf ==
    /\ pc \in {1, 2, 4, 6}
    /\ \E v \in ChainVals : LeafWithGrad(Singleton(R(v)))
    /\ pc' = pc + 1

\* let e = &a * &b: tensor 3
ChainMulE == pc = 3 /\ MulOp(1, 2) /\ pc' = 4

\* let d = &e + &c: tensor 5
ChainAddD == pc = 5 /\ AddOp(3, 4) /\ pc' = 6

\* let y = &f * &d: tensor 7
ChainMulY == pc = 7 /\ MulOp(6, 5) /\ pc' = 8

\* y.set_grad(Tensor::singleton(1.0))
ChainSeed == pc = 8 /\ SetGrad(7, Singleton(R(1))) /\ pc' = 9

\* y.backward()
ChainBackward == pc = 9 /\ Backward(7) /\ pc' = 10

ChainNext ==
    \/ ChainLeaf
    \/ ChainMulE
    \/ ChainAddD
    \/ ChainMulY
    \/ ChainSeed
    \/ ChainBackward
    \/ Descend
    \/ Return

SpecChain == ChainInit /\ [][ChainNext]_vars

\* t.item() and t.grad().item() of the caller's i-th tensor
Item(i) == tensors[i].data[1][1]
GradItem(i) == nodes[tensors[i].gradient].value.t.data[1][1]

\* y.backward() has returned
ChainDone == pc = 10 /\ stack = <<>>

\* C1: in the scenario the forward values are e = a*b, d = e+c, y = f*d, and
\* once backward has returned (without aborting) y.grad = 1, d.grad = f,
\* f.grad = d, e.grad = c.grad = d.grad, a.grad = e.grad*b, b.grad = e.grad*a;
\* for a=1, b=2, c=10, f=-2: e=2, d=12, y=-24, a.grad=-4, b.grad=-2,
\* c.grad=-2, f.grad=12, d.grad=-2, e.grad=-2.
C1_SmallComputationGraph ==
    /\ Len(tensors) >= 3 => Item(3) = RMul(Item(1), Item(2))
    /\ Len(tensors) >= 5 => Item(5) = RAdd(Item(3), Item(4))
    /\ Len(tensors) >= 7 => Item(7) = RMul(Item(6), Item(5))
    /\ ChainDone =>
          /\ err = "ok"
          /\ GradItem(7) = R(1)
          /\ GradItem(5) = Item(6)
          /\ GradItem(6) = Item(5)
          /\ GradItem(3) = GradItem(5)
          /\ GradItem(4) = GradItem(5)
          /\ GradItem(1) = RMul(GradItem(3), Item(2))
          /\ GradItem(2) = RMul(GradItem(3), Item(1))
          /\ (Item(1) = R(1) /\ Item(2) = R(2) /\ Item(4) = R(10) /\ Item(6) = R(-2))
             => /\ Item(3) = R(2) /\ Item(5) = R(12) /\ Item(7) = R(-24)
                /\ GradItem(1) = R(-4) /\ GradItem(2) = R(-2)
                /\ GradItem(4) = R(-2) /\ GradItem(6) = R(12)
                /\ GradItem(5) = R(-2) /\ GradItem(3) = R(-2)

\* C1's case: the scenario with a=1, b=2, c=10, f=-2 has run to the end
C1_Witness ==
    /\ ChainDone
    /\ err = "ok"
    /\ Item(1) = R(1) /\ Item(2) = R(2) /\ Item(4) = R(10) /\ Item(6) = R(-2)
    /\ GradItem(1) = R(-4)
    /\ Len(log) = 7

----------------------------------------------------------------------------
(* Specification SpecOps: one differentiable operation on matrices.  The    *)
(* caller holds two gradient-enabled leaves of up to MaxDim x MaxDim, may   *)
(* give each a gradient with set_grad, applies one operation to them,       *)
(* seeds the result with a gradient dy of the result's shape and runs       *)
(* backward from it.  pc: 0 before the operation, 1 after it, 2 once the    *)
(* pass has started.                                                        *)

\* the rows [s, s+1, ..], [s+n, ..], .. of an m x n matrix
Ramp(m, n, s) ==
    FromVector([i \in 1..m |-> [j \in 1..n |-> R(s + (i - 1) * n + (j - 1))]])

\* the first cells of the leaves
RampStarts == {-3, -1, 2}

LeafMats ==
    {Ramp(m, n, s) : m \in 1..MaxDim, n \in 1..MaxDim, s \in RampStarts}

\* the gradients the caller seeds a tensor of data shape (m, n) with
Seeds(m, n) == {Fill(m, n, R(1)), Fill(m, n, R(2)), Ramp(m, n, 1)}

OpsInit ==
    /\ \E x, y \in LeafMats :
          LET l1 == Constructed(<<>>, x)
              n1 == WithGradNode(l1.node, l1.tensor)
              l2 == Constructed(<<n1>>, y)
              n2 == WithGradNode(l2.node, l2.tensor)
          IN  /\ nodes = <<n1, n2>>
              /\ tensors = <<l1.tensor, l2.tensor>>
    /\ stack = <<>>
    /\ log = <<>>
    /\ err = "ok"
    /\ pc = 0

\* leaf.set_grad(g) before the operation, on a leaf whose gradient is zero
OpsPrior ==
    \E i \in 1..2 :
        /\ pc = 0
        /\ nodes[i].value.t = Zeros(tensors[i].size[1], tensors[i].size[2])
        /\ SetGrad(i, Ramp(tensors[i].size[1], tensors[i].size[2], 1))
        /\ pc' = 0

OpsNeg == \E i \in 1..2 : pc = 0 /\ NegOp(i) /\ pc' = 1
OpsRelu == \E i \in 1..2 : pc = 0 /\ ReluOp(i) /\ pc' = 1
OpsMean == \E i \in 1..2 : pc = 0 /\ MeanOp(i) /\ pc' = 1
OpsPow == \E i \in 1..2 : \E e \in 1..MaxExp : pc = 0 /\ PowOp(i, e) /\ pc' = 1
OpsAdd == \E i, j \in 1..2 : pc = 0 /\ AddOp(i, j) /\ pc' = 1
OpsSub == \E i, j \in 1..2 : pc = 0 /\ SubOp(i, j) /\ pc' = 1
OpsMul == \E i, j \in 1..2 : pc = 0 /\ MulOp(i, j) /\ pc' = 1

\* result.set_grad(dy); result.backward()
OpsStartPass ==
    /\ pc = 1
    /\ Len(tensors) = 3
    /\ LET shape == SizeOf(tensors[3].data)
       IN  \E dy \in Seeds(shape[1], shape[2]) : SeedBackward(3, dy)
    /\ pc' = 2

OpsNext ==
    \/ OpsPrior
    \/ OpsNeg
    \/ OpsRelu
    \/ OpsMean
    \/ OpsPow
    \/ OpsAdd
    \/ OpsSub
    \/ OpsMul
    \/ OpsStartPass
    \/ Descend
    \/ Return

SpecOps == OpsInit /\ [][OpsNext]_vars


\* the step that seeds the result (node 3) and enters backward on it
PassStarts == pc = 1 /\ pc' = 2

\* the pass of SpecOps has returned to the caller
OpsDone == pc = 2 /\ stack = <<>>

----------------------------------------------------------------------------
(* Claims settled under SpecOps *)

\* C5: for y = a*b with a of m x k, b of k x p and a gradient dy of m x p,
\* entering backward on y does not abort and adds dy * transpose(b) to a's
\* gradient and transpose(a) * dy to b's gradient.
C5_MatMulBackward ==
    [][(PassStarts /\ nodes[3].operation.tag = "Mul") =>
        LET dy == nodes'[3].value.t
        IN  /\ err' = "ok"
            /\ \A p \in 1..2 :
                  nodes'[p].value.t =
                      MatAdd(nodes[p].value.t, OwedFrom(3, p, dy, 1))]_vars

\* C6: for y = pow(a, e) with gradient dy, entering backward on y adds
\* e * a[i][j]^(e-1) * dy[i][j] to cell (i, j) of a's gradient.
C6_PowBackward ==
    [][(PassStarts /\ nodes[3].operation.tag = "Pow") =>
        LET dy == nodes'[3].value.t
            op == nodes[3].operation
            a == op.a.gradient
        IN  /\ err' = "ok"
            /\ nodes'[a].value.t =
                  MatAdd(nodes[a].value.t,
                         Apply(ValueOf(op.a), LAMBDA i, j, t :
                             RMul(RMul(R(op.exp), RPow(t.data[i][j], op.exp - 1)),
                                  dy.data[i][j])))]_vars

\* C7: for y = mean(a) with a of m x n and gradient dy (one cell), entering
\* backward on y adds dy / (m*n) to every cell of a's gradient.
C7_MeanBackward ==
    [][(PassStarts /\ nodes[3].operation.tag = "Mean") =>
        LET dy == nodes'[3].value.t
            op == nodes[3].operation
            a == op.a.gradient
        IN  /\ err' = "ok"
            /\ nodes'[a].value.t =
                  MatAdd(nodes[a].value.t,
                         Fill(op.a.size[1], op.a.size[2],
                              RDivInt(dy.data[1][1], op.a.size[1] * op.a.size[2])))]_vars

\* C8: for y = relu(a) with gradient dy, entering backward on y does not
\* abort and adds dy[i][j] to a's gradient in the cells where a[i][j] >= 0
\* and 0 in the others; a = 2 seeded with 2 gets gradient 2 and a = -3
\* seeded with 2 gets gradient 0 (on a gradient that was zero).
C8_ReluBackward ==
    [][(PassStarts /\ nodes[3].operation.tag = "ReLU") =>
        LET dy == nodes'[3].value.t
            op == nodes[3].operation
            a == op.a.gradient
        IN  /\ err' = "ok"
            /\ nodes'[a].value.t =
                  MatAdd(nodes[a].value.t,
                         Apply(ValueOf(op.a), LAMBDA i, j, t :
                             IF t.data[i][j].num >= 0 THEN dy.data[i][j] ELSE R(0)))
            /\ (nodes[a].value.t = Zeros(1, 1) /\ dy = Singleton(R(2))) =>
                  /\ ValueOf(op.a) = Singleton(R(2)) =>
                        nodes'[a].value.t = Singleton(R(2))
                  /\ ValueOf(op.a) = Singleton(R(-3)) =>
                        nodes'[a].value.t = Singleton(R(0))]_vars

\* C8's case: backward has run from relu(a) for a = [[-1, 0], [1, 2]] whose
\* gradient was [[1, 2], [3, 4]], seeded with 2 in every cell: the cell of -1
\* kept 1, the cell of 0 went from 2 to 4
C8_Witness ==
    /\ OpsDone
    /\ err = "ok"
    /\ nodes[3].operation.tag = "ReLU"
    /\ ValueOf(nodes[3].operation.a) = Ramp(2, 2, -1)
    /\ nodes[3].value.t = Fill(2, 2, R(2))
    /\ LET g == nodes[nodes[3].operation.a.gradient].value.t
       IN  g.data[1][1] = R(1) /\ g.data[1][2] = R(4)

\* C10: a step in which one of neg, add, sub, matrix multiply, pow, mean,
\* relu returns gives the caller a tensor whose gradient node is a new one,
\* holding an all-zero gradient of the tensor's size, and leaves the
\* operands' tensors (data) and nodes (gradient, last, operation tag) as
\* they were.
C10_ForwardMakesFreshNode ==
    [][(pc = 0 /\ pc' = 1 /\ err' = "ok") =>
        /\ Len(tensors') = Len(tensors) + 1
        /\ Len(nodes') = Len(nodes) + 1
        /\ LET y == tensors'[Len(tensors')]
           IN  /\ y.gradient \notin 1..Len(nodes)
               /\ y.gradient \in 1..Len(nodes')
               /\ \A i \in 1..Len(tensors) : tensors[i].gradient # y.gradient
               /\ nodes'[y.gradient].value.some
               /\ nodes'[y.gradient].value.t = Zeros(y.size[1], y.size[2])
        /\ \A i \in 1..Len(tensors) : tensors'[i] = tensors[i]
        /\ \A n \in 1..Len(nodes) : nodes'[n] = nodes[n]]_vars

\* C10's case: a matrix product of two different leaves has returned, and
\* the operands still hold the gradients set_grad gave them
C10_Witness ==
    /\ pc = 1
    /\ err = "ok"
    /\ Len(tensors) = 3
    /\ nodes[3].operation.tag = "Mul"
    /\ nodes[3].operation.a.gradient = 1
    /\ nodes[3].operation.b.gradient = 2
    /\ tensors[3].size = <<1, 2>>
    /\ nodes[1].value.t = Ramp(1, 2, 1)
    /\ nodes[2].value.t = Ramp(2, 2, 1)

\* C9: a step in which backward enters a Neg, Add or Sub node with gradient
\* dy adds -dy to the operand of Neg, dy to both operands of Add, dy to the
\* first and -dy to the second operand of Sub, each on top of what the
\* operand's node held before the step (twice when both operands are the
\* same node), and leaves every other node's gradient as it was.
C9_LinearArmsAccumulate ==
    [][(log' # log /\ err' = "ok") =>
        LET g == log'[Len(log')]
            dy == nodes'[g].value.t
        IN  nodes[g].operation.tag \in {"Neg", "Add", "Sub"} =>
                \A p \in (1..Len(nodes)) \ {g} :
                    nodes'[p].value.t =
                        MatAdd(nodes[p].value.t, OwedFrom(g, p, dy, 1))]_vars

\* C9's case: backward has run from a - b for two different 1 x 2 leaves
\* that each held the gradient [[1, 2]], seeded with 2 in every cell: a's
\* gradient is [[3, 4]] and b's is [[-1, 0]]
C9_Witness ==
    /\ OpsDone
    /\ err = "ok"
    /\ nodes[3].operation.tag = "Sub"
    /\ nodes[3].operation.a.gradient = 1
    /\ nodes[3].operation.b.gradient = 2
    /\ nodes[3].value.t = Fill(1, 2, R(2))
    /\ nodes[1].value.t = Ramp(1, 2, 3)
    /\ nodes[2].value.t = Ramp(1, 2, -1)

----------------------------------------------------------------------------
(* The Linear layer, Module::backward and the optimizer *)

\* reset_grad that leaves the gradient as it is
ResetGradNodes_Keep(ns, self) == ns

\* Differentiable::reset_grad: the arena afterwards
ResetGradNodes(ns, self) ==
    SetGradNodes(ns, self, Zeros(self.size[1], self.size[2]))

\* Linear::new(size_in, size_out) on the arena ns: the two parameter
\* tensors, ones(size_in, size_out) and ones(1, size_out), both with_grad()
LinearNew(ns, size_in, size_out) ==
    LET w == Constructed(ns, Ones(size_in, size_out))
        wn == WithGradNode(w.node, w.tensor)
        b == Constructed(Append(ns, wn), Ones(1, size_out))
        bn == WithGradNode(b.node, b.tensor)
    IN  [weights |-> w.tensor, bias |-> b.tensor, nodes |-> ns \o <<wn, bn>>]

\* Linear::reset_grad: set_grad(singleton(0.0)) on the weights and the bias
LinearResetGrad(ns, weights, bias) ==
    SetGradNodes(SetGradNodes(ns, weights, Singleton(R(0))), bias, Singleton(R(0)))

\* Linear::forward(x) on the arena ns: both parameters' reset_grad, then
\* a = x * weights, then a + bias; the arena it leaves and, where no
\* assertion failed, the tensor it returns
LinearForward(ns, weights, bias, x) ==
    LET ns1 == ResetGradNodes(ResetGradNodes(ns, weights), bias)
    IN  IF MulPanics(x, weights)
        THEN [ok |-> FALSE, nodes |-> ns1, tensor |-> NoTensor]
        ELSE LET a == MulT(ns1, x, weights)
                 ns2 == Append(ns1, a.node)
             IN  IF AddPanics(a.tensor, bias)
                 THEN [ok |-> FALSE, nodes |-> ns2, tensor |-> NoTensor]
                 ELSE LET b == AddT(ns2, a.tensor, bias)
                      IN  [ok |-> TRUE, nodes |-> Append(ns2, b.node),
                           tensor |-> b.tensor]

\* the learning rate of the tests, 0.01
LearningRate == RDivInt(R(1), 100)

\* SubAssign: self -= right in place; the sizes are asserted equal
SubAssignT(self, right) ==
    IF self.size # right.size \/ ~InBounds(self) \/ ~InBounds(right)
    THEN [ok |-> FALSE, tensor |-> self]
    ELSE [ok |-> TRUE, tensor |-> [self EXCEPT !.data = SubData(self, right)]]

\* StepParameter with the gradient added instead of subtracted
StepParameter_Ascent(ns, parameter) ==
    LET value == ns[parameter.gradient].value
    IN  IF ~value.some THEN [ok |-> FALSE, tensor |-> parameter]
        ELSE SubAssignT(parameter, Scale(value.t, RNeg(LearningRate)))

\* the body of step's closure for one parameter: weight_update =
\* learning_rate * parameter.grad(); *parameter -= &weight_update
StepParameter(ns, parameter) ==
    LET value == ns[parameter.gradient].value
    IN  IF ~value.some THEN [ok |-> FALSE, tensor |-> parameter]
        ELSE SubAssignT(parameter, Scale(value.t, LearningRate))

\* OptimizerStep that updates the first parameter only
OptimizerStep_FirstOnly(ns, ts) ==
    LET r1 == StepParameter(ns, ts[1])
    IN  [ok |-> r1.ok, tensors |-> [ts EXCEPT ![1] = r1.tensor]]

\* StochasticGradientDescent::step over the parameters ts[1], ts[2] (the
\* order of Linear::parameters), stopping at the first that aborts
OptimizerStep(ns, ts) ==
    LET r1 == StepParameter(ns, ts[1])
        ts1 == [ts EXCEPT ![1] = r1.tensor]
        r2 == StepParameter(ns, ts[2])
    IN  IF ~r1.ok THEN [ok |-> FALSE, tensors |-> ts]
        ELSE [ok |-> r2.ok, tensors |-> [ts1 EXCEPT ![2] = r2.tensor]]

----------------------------------------------------------------------------
(* Specification SpecNN: one Linear layer in a training loop.  tensors[1]   *)
(* and tensors[2] are the layer's weights and bias (the cells the layer     *)
(* shares with the optimizer), tensors[3] is the sample's input, the later  *)
(* tensors are the outputs of forward; pc counts the optimizer steps.       *)

\* largest number of optimizer steps in one run
MaxSteps == 2

\* the outputs one run may hold
MaxOutputs == MaxNodes - 1

NNInit ==
    /\ \E size_in, size_out \in 1..MaxDim : \E x \in LeafMats : \E tracked \in BOOLEAN :
          LET layer == LinearNew(<<>>, size_in, size_out)
              c == Constructed(layer.nodes, x)
              xn == IF tracked THEN WithGradNode(c.node, c.tensor) ELSE c.node
          IN  /\ x.size[2] = size_in
              /\ nodes = Append(layer.nodes, xn)
              /\ tensors = <<layer.weights, layer.bias, c.tensor>>
    /\ stack = <<>>
    /\ log = <<>>
    /\ err = "ok"
    /\ pc = 0

\* model.reset_grad()
NNResetGrad ==
    /\ Idle
    /\ nodes' = LinearResetGrad(nodes, tensors[1], tensors[2])
    /\ UNCHANGED <<tensors, stack, log, err, pc>>

\* let y_pred = model.forward(x)
NNForward ==
    /\ Idle
    /\ Len(tensors) < 3 + MaxOutputs
    /\ LET r == LinearForward(nodes, tensors[1], tensors[2], tensors[3])
       IN  /\ nodes' = r.nodes
           /\ err' = IF r.ok THEN "ok" ELSE "panic"
           /\ tensors' = IF r.ok THEN Append(tensors, r.tensor) ELSE tensors
    /\ UNCHANGED <<stack, log, pc>>

\* ReLU::forward on the layer's latest output (the model [Linear, ReLU]),
\* before any pass has touched it
NNRelu ==
    /\ Len(tensors) \in 4..(2 + MaxOutputs)
    /\ LET out == tensors[Len(tensors)]
       IN  /\ nodes[out.gradient].operation.tag = "Add"
           /\ nodes[out.gradient].value.t = Zeros(out.size[1], out.size[2])
    /\ ReluOp(Len(tensors))
    /\ UNCHANGED pc

\* loss.set_grad(..) by the caller, on a loss no pass has touched
NNPriorLoss ==
    /\ Len(tensors) > 3
    /\ LET loss == tensors[Len(tensors)]
       IN  /\ nodes[loss.gradient].value.t = Zeros(loss.size[1], loss.size[2])
           /\ SetGrad(Len(tensors), Fill(loss.size[1], loss.size[2], R(2)))
    /\ UNCHANGED pc

\* model.backward(loss) on the latest output, once
NNBackward ==
    /\ Len(tensors) > 3
    /\ nodes[tensors[Len(tensors)].gradient].value.t # Singleton(R(1))
    /\ SeedBackward(Len(tensors), Singleton(R(1)))
    /\ UNCHANGED pc

\* optimizer.step()
NNStep ==
    /\ Idle
    /\ pc < MaxSteps
    /\ LET r == OptimizerStep(nodes, tensors)
       IN  /\ tensors' = r.tensors
           /\ err' = IF r.ok THEN "ok" ELSE "panic"
    /\ pc' = pc + 1
    /\ UNCHANGED <<nodes, stack, log>>

\* optimizer.step(); optimizer.step()
NNStepTwice ==
    /\ Idle
    /\ pc + 2 <= MaxSteps
    /\ LET r1 == OptimizerStep(nodes, tensors)
           r2 == OptimizerStep(nodes, r1.tensors)
       IN  /\ tensors' = IF r1.ok THEN r2.tensors ELSE r1.tensors
           /\ err' = IF r1.ok /\ r2.ok THEN "ok" ELSE "panic"
    /\ pc' = pc + 2
    /\ UNCHANGED <<nodes, stack, log>>

NNNext ==
    \/ NNResetGrad
    \/ NNForward
    \/ NNRelu
    \/ NNPriorLoss
    \/ NNBackward
    \/ NNStep
    \/ NNStepTwice
    \/ Descend
    \/ Return

SpecNN == NNInit /\ [][NNNext]_vars

\* every parameter's gradient has the parameter's shape: the state a
\* completed forward and backward pass leaves, in which step is to be run
ParameterGradsShaped ==
    \A p \in 1..2 : nodes[tensors[p].gradient].value.t.size = tensors[p].size

\* x * weights + bias with the one bias row added to every row
Broadcast(x, weights, bias) ==
    [i \in 1..x.size[1] |-> [j \in 1..weights.size[2] |->
        RAdd(RSum([k \in 1..x.size[2] |-> RMul(x.data[i][k], weights.data[k][j])],
                  x.size[2]),
             bias.data[1][j])]]

\* the pass model.backward started returns to the caller
PassReturns == Len(stack) = 1 /\ Return

----------------------------------------------------------------------------
(* Claims settled under SpecNN *)

\* C12: in every reachable state every gradient-tracked tensor's
\* accumulated gradient has the (rows, cols) shape of the tensor.
C12_GradShapeIsValueShape ==
    \A i \in 1..Len(tensors) :
        LET node == nodes[tensors[i].gradient]
        IN  node.value.some => node.value.t.size = tensors[i].size

\* C13: Linear::forward on an input of r rows returns, for every r >= 1,
\* the r x size_out tensor x * weights + bias, the single bias row added to
\* every row of the product.
C13_LinearForwardBroadcasts ==
    [][NNForward =>
        /\ err' = "ok"
        /\ Len(tensors') = Len(tensors) + 1
        /\ LET out == tensors'[Len(tensors')]
           IN  /\ out.size = <<tensors[3].size[1], tensors[1].size[2]>>
               /\ out.data = Broadcast(tensors[3], tensors[1], tensors[2])]_vars

\* C14: Module::backward(loss) sets the gradient of loss to the 1x1 value 1
\* in place of what was there, and when the pass it starts returns, the
\* gradient of loss is 1 and the bias and the weights hold their
\* contributions: d (the gradient that reached the layer's output, 1 or the
\* ReLU mask of it) and transpose(x) * d.
C14_ModuleBackward ==
    [][/\ NNBackward =>
            nodes'[tensors[Len(tensors)].gradient].value.t = Singleton(R(1))
       /\ PassReturns =>
            LET root == stack[1].g
                op == nodes[root].operation
                d == IF op.tag = "ReLU"
                     THEN Apply(ValueOf(op.a), LAMBDA i, j, t :
                              IF t.data[i][j].num >= 0 THEN R(1) ELSE R(0))
                     ELSE Singleton(R(1))
            IN  /\ err' = "ok"
                /\ nodes'[root].value.t = Singleton(R(1))
                /\ nodes'[tensors[2].gradient].value.t = d
                /\ nodes'[tensors[1].gradient].value.t =
                      MatMul(Transpose(ValueOf(tensors[3])), d)]_vars

\* C14's case: model.backward has returned for the layer Linear(2, 1) on the
\* input [[2, 3]]: the loss holds 1, the bias 1 and the weights [[2], [3]]
C14_Witness ==
    /\ Idle
    /\ log # <<>>
    /\ Len(tensors) = 4
    /\ ValueOf(tensors[3]) = Ramp(1, 2, 2)
    /\ nodes[tensors[4].gradient].value.t = Singleton(R(1))
    /\ nodes[tensors[2].gradient].value.t = Singleton(R(1))
    /\ nodes[tensors[1].gradient].value.t = Transpose(Ramp(1, 2, 2))

\* C15: Optimizer::step, run in the state a completed forward and backward
\* pass leaves, replaces every cell v of every parameter by
\* v - learning_rate * grad, in place on the tensors the layer holds, and
\* leaves every gradient unchanged; the next forward computes with the
\* updated values.
C15_StepUpdatesInPlace ==
    [][/\ (NNStep /\ ParameterGradsShaped) =>
            /\ err' = "ok"
            /\ nodes' = nodes
            /\ Len(tensors') = Len(tensors)
            /\ \A p \in 1..2 :
                  LET g == nodes[tensors[p].gradient].value.t
                  IN  /\ tensors'[p].gradient = tensors[p].gradient
                      /\ tensors'[p].size = tensors[p].size
                      /\ \A i \in 1..tensors[p].size[1] :
                            \A j \in 1..tensors[p].size[2] :
                                tensors'[p].data[i][j] =
                                    RSub(tensors[p].data[i][j],
                                         RMul(LearningRate, g.data[i][j]))
       /\ (NNForward /\ err' = "ok") =>
            tensors'[Len(tensors')].data =
                Broadcast(tensors[3], tensors[1], tensors[2])]_vars

\* C15's case: Linear(1, 1) on the input 2: after forward, backward and one
\* step the weight is 1 - 0.01 * 2 = 49/50 and the bias 99/100, and the next
\* forward returns 2 * 49/50 + 99/100 = 59/20
C15_Witness ==
    /\ Idle
    /\ pc = 1
    /\ Len(tensors) = 5
    /\ ValueOf(tensors[3]) = Singleton(R(2))
    /\ tensors[1].data = <<<<Norm(49, 50)>>>>
    /\ tensors[2].data = <<<<Norm(99, 100)>>>>
    /\ tensors[5].data = <<<<Norm(59, 20)>>>>

\* C16: two calls of Optimizer::step with nothing in between leave every
\* cell of every parameter at v0 - 2 * learning_rate * g, for the value v0
\* and the gradient g before the first call, and leave g as it was.
C16_TwoStepsApplyTwice ==
    [][(NNStepTwice /\ ParameterGradsShaped) =>
        /\ err' = "ok"
        /\ nodes' = nodes
        /\ \A p \in 1..2 :
              LET g == nodes[tensors[p].gradient].value.t
              IN  \A i \in 1..tensors[p].size[1] :
                      \A j \in 1..tensors[p].size[2] :
                          tensors'[p].data[i][j] =
                              RSub(tensors[p].data[i][j],
                                   RMul(RMul(R(2), LearningRate), g.data[i][j]))]_vars

\* C16's case: Linear(2, 1) on the input [[2, 3]]: after forward, backward
\* and two steps the weights are [[1 - 0.04], [1 - 0.06]] and the bias 0.98,
\* the gradients still [[2], [3]] and 1
C16_Witness ==
    /\ Idle
    /\ pc = 2
    /\ Len(tensors) = 4
    /\ nodes[tensors[1].gradient].value.t = Transpose(Ramp(1, 2, 2))
    /\ nodes[tensors[2].gradient].value.t = Singleton(R(1))
    /\ tensors[1].data = <<<<Norm(24, 25)>>, <<Norm(47, 50)>>>>
    /\ tensors[2].data = <<<<Norm(49, 50)>>>>

----------------------------------------------------------------------------
(* Claims settled under SpecOps: the operations' failures *)

\* the shapes of two operands differ
ShapesDiffer(a, b) == a.size # b.size

\* the inner dimensions of a product differ
InnerDiffer(a, b) == a.size[2] # b.size[1]

\* C17: a + b and a - b on operands of different (rows, cols), and a * b with
\* a's column count different from b's row count, abort: the step ends in a
\* panic, the caller holds no new tensor, the arena has no new node, and the
\* operands' data and their nodes (gradient included) are as before.
C17_ShapeMismatchAborts ==
    [][\A i, j \in 1..Len(tensors) :
          (\/ ShapesDiffer(tensors[i], tensors[j]) /\ AddOp(i, j)
           \/ ShapesDiffer(tensors[i], tensors[j]) /\ SubOp(i, j)
           \/ InnerDiffer(tensors[i], tensors[j]) /\ MulOp(i, j))
          => /\ err' = "panic"
             /\ tensors' = tensors
             /\ nodes' = nodes]_vars

\* a 1x2 and a 2x2 leaf, the first holding the gradient the caller gave it:
\* the operation on them aborted and left both as they were
C17_Witness ==
    /\ err = "panic" /\ pc = 1 /\ Len(tensors) = 2 /\ Len(nodes) = 2
    /\ tensors[1].size = <<1, 2>> /\ tensors[2].size = <<2, 2>>
    /\ tensors[1].data = Ramp(1, 2, 2).data
    /\ nodes[1].value.t = Ramp(1, 2, 1)
    /\ nodes[2].value.t = Zeros(2, 2)

----------------------------------------------------------------------------
(* The rest of the Differentiable interface, as the caller uses it *)

\* Differentiable::grad: the accumulated gradient, or the abort of `expect`
Grad(ns, self) ==
    IF ns[self.gradient].value.some THEN Ok(ns[self.gradient].value.t)
    ELSE Panic

\* let c = t.clone(): the caller holds one more tensor, the arena is as before
CloneOp(i) ==
    /\ Idle
    /\ i \in 1..Len(tensors)
    /\ tensors' = Append(tensors, Clone(tensors[i]))
    /\ UNCHANGED <<nodes, stack, log, err>>

\* t = t.with_grad(): the call takes t, and the caller holds the tensor it
\* returns in t's place; on a tensor that has a gradient already it prints
\* "Tensor already has grad enabled."
WithGradOp(i) ==
    /\ Idle
    /\ i \in 1..Len(tensors)
    /\ LET g == tensors[i].gradient
       IN  /\ nodes' = [nodes EXCEPT ![g] = WithGradNode(nodes[g], tensors[i])]
           /\ log' = IF nodes[g].value.some THEN Append(log, -g) ELSE log
    /\ tensors' = [tensors EXCEPT ![i] = Clone(tensors[i])]
    /\ UNCHANGED <<stack, err>>

\* t.reset_grad()
ResetGradOp(i) ==
    /\ Idle
    /\ i \in 1..Len(tensors)
    /\ nodes' = ResetGradNodes(nodes, tensors[i])
    /\ UNCHANGED <<tensors, stack, log, err>>

\* t.add_grad(grad)
AddGradOp(i, grad) ==
    /\ Idle
    /\ i \in 1..Len(tensors)
    /\ LET r == AddGrad(nodes, tensors[i], grad)
       IN  IF r.ok THEN nodes' = r.nodes /\ UNCHANGED <<tensors, stack, log, err>>
           ELSE Abort

\* let v = t.grad(): the tensor returned is a copy of the stored gradient, on
\* a node of its own
GradOp(i) ==
    /\ Idle
    /\ i \in 1..Len(tensors)
    /\ LET r == Grad(nodes, tensors[i])
       IN  IF r.ok THEN Push(Constructed(nodes, r.t)) ELSE Abort

\* let v = t.last(): a copy of the cached forward value, or of t itself where
\* nothing is cached
LastOp(i) ==
    /\ Idle
    /\ i \in 1..Len(tensors)
    /\ LET last == nodes[tensors[i].gradient].last
       IN  IF last.some THEN Push(Constructed(nodes, last.t))
           ELSE /\ tensors' = Append(tensors, Clone(tensors[i]))
                /\ UNCHANGED <<nodes, stack, log, err>>

----------------------------------------------------------------------------
(* Specification SpecApi: the caller constructs two leaves t and u, rows   *)
(* of one length (tensors 1 and 2), without gradient tracking.  It clones one of    *)
(* them (c, tensor 3) and negates or adds tensors it holds (y, tensor 4);   *)
(* along the way it enables, sets, resets and adds to gradients.  Then it   *)
(* may run one backward pass from any tensor, and it ends with one read,    *)
(* grad() or last().  pc: 0 before the pass, 1 once it has started, 2 after *)
(* the read.  log also holds -g for each diagnostic with_grad printed about *)
(* node g.                                                                  *)

ApiInit ==
    /\ \E n \in 1..MaxDim :
          LET t == Constructed(<<>>, Ramp(1, n, 2))
              u == Constructed(<<t.node>>, Ramp(1, n, -3))
          IN  /\ nodes = <<t.node, u.node>>
              /\ tensors = <<t.tensor, u.tensor>>
    /\ stack = <<>>
    /\ log = <<>>
    /\ err = "ok"
    /\ pc = 0

\* the gradient the caller hands to set_grad for tensor i, and to add_grad
ApiSeed(i) == Ramp(tensors[i].size[1], tensors[i].size[2], 1)
ApiExtra(i) == Fill(tensors[i].size[1], tensors[i].size[2], R(2))

ApiClone == \E i \in 1..2 : pc = 0 /\ Len(tensors) = 2 /\ CloneOp(i) /\ pc' = 0
ApiNeg == \E i \in 1..3 : pc = 0 /\ Len(tensors) = 3 /\ NegOp(i) /\ pc' = 0
ApiAdd == \E i, j \in 1..3 : pc = 0 /\ Len(tensors) = 3 /\ AddOp(i, j) /\ pc' = 0

\* with_grad prints its diagnostic at most once in a run
ApiWithGrad ==
    \E i \in 1..Len(tensors) :
        /\ pc = 0
        /\ nodes[tensors[i].gradient].value.some => log = <<>>
        /\ WithGradOp(i)
        /\ pc' = 0
ApiSetGrad ==
    \E i \in 1..Len(tensors) : pc = 0 /\ SetGrad(i, ApiSeed(i)) /\ pc' = 0
ApiResetGrad ==
    \E i \in 1..Len(tensors) : pc = 0 /\ ResetGradOp(i) /\ pc' = 0
\* add_grad on a tensor whose gradient is zero
ApiAddGrad ==
    \E i \in 1..Len(tensors) :
        /\ pc = 0
        /\ Grad(nodes, tensors[i]) = Ok(Zeros(tensors[i].size[1], tensors[i].size[2]))
        /\ AddGradOp(i, ApiExtra(i))
        /\ pc' = 0

ApiBackward ==
    \E i \in 1..Len(tensors) : pc = 0 /\ Len(tensors) = 4 /\ Backward(i) /\ pc' = 1
ApiGrad ==
    \E i \in 1..Len(tensors) : pc < 2 /\ Len(tensors) = 4 /\ GradOp(i) /\ pc' = 2
ApiLast ==
    \E i \in 1..Len(tensors) : pc < 2 /\ Len(tensors) = 4 /\ LastOp(i) /\ pc' = 2

ApiNext ==
    \/ ApiClone
    \/ ApiNeg
    \/ ApiAdd
    \/ ApiWithGrad
    \/ ApiSetGrad
    \/ ApiResetGrad
    \/ ApiAddGrad
    \/ ApiBackward
    \/ ApiGrad
    \/ ApiLast
    \/ Descend
    \/ Return

SpecApi == ApiInit /\ [][ApiNext]_vars

----------------------------------------------------------------------------
(* Claims settled under SpecApi *)

\* the leaf that c (tensor 3) was cloned from: the one whose data c holds
CloneSource == CHOOSE k \in 1..2 : tensors[k].data = tensors[3].data

\* the gradient read through each of the tensors ws, in the next state
ReadBack(ws, value) ==
    \A k \in ws : Grad(nodes', tensors'[k]) = Ok(value)

\* the step appended a node with this tag to the arena: an operation returned
MadeNode(tag) ==
    /\ err' = "ok"
    /\ Len(nodes') = Len(nodes) + 1
    /\ nodes'[Len(nodes')].operation.tag = tag

Untracked(t) == nodes[t.gradient] = GradientDefault

\* C18: grad() and last() on a tensor whose node has no gradient tracking
\* abort instead of returning a value.
C18_ReadsOfUntrackedAbort ==
    [][\A i \in 1..Len(tensors) :
          ((GradOp(i) \/ LastOp(i)) /\ Untracked(tensors[i]))
          => (err' = "panic" /\ tensors' = tensors)]_vars

\* C19: with_grad on a tensor that has gradient tracking already does not
\* fail and changes nothing: the node (accumulated gradient, zero or not,
\* last and tag) is as before, and the tensor returned has the data and the
\* node of the tensor it was called on.
C19_WithGradTwiceIsNoOp ==
    [][\A i \in 1..Len(tensors) :
          (WithGradOp(i) /\ nodes[tensors[i].gradient].value.some)
          => /\ err' = "ok"
             /\ nodes' = nodes
             /\ tensors'[i] = tensors[i]
             /\ Len(tensors') = Len(tensors)]_vars

\* y = -t, holding the gradient [[1, 2]] the caller set: with_grad has been
\* called on it (its diagnostic is in the log), and gradient, last and tag
\* are there
C19_Witness ==
    /\ err = "ok" /\ pc = 0 /\ log = <<-3>>
    /\ Len(tensors) = 4 /\ tensors[4].gradient = 3
    /\ nodes[3].operation.tag = "Neg" /\ nodes[3].operation.a.gradient = 1
    /\ nodes[3].value.t = Ramp(1, 2, 1)
    /\ nodes[3].last.t = MatNeg(Ramp(1, 2, 2))

\* this step is a call of backward on a node whose tag is None: made by the
\* caller on a tensor it holds, or by a live call on one of its operands
EntersLeaf ==
    \/ \E i \in 1..Len(tensors) :
          /\ nodes[tensors[i].gradient].operation.tag = "None"
          /\ Backward(i)
    \/ /\ stack # <<>>
       /\ LET top == stack[Len(stack)]
              ps == Parents(nodes[top.g].operation)
          IN  /\ top.pc <= Len(ps)
              /\ nodes[ps[top.pc].gradient].operation.tag = "None"
       /\ Descend

\* C20: backward on a node whose tag is None, called directly or by
\* recursion, on a leaf with or without gradient tracking, does not fail and
\* changes no node.
C20_BackwardOnLeafIsNoOp ==
    [][EntersLeaf => (err' = "ok" /\ nodes' = nodes)]_vars

----------------------------------------------------------------------------
(* The Tensor of tensor.rs: a tensor's metadata is a shared TensorData cell *)
(* (Rc<RefCell<TensorData>>) whose grad_fn closure holds the cells of the   *)
(* operands.  Here `nodes` is the arena of TensorData cells, a tensor is a  *)
(* record [size, data, metadata], and a frame of `stack` is a live call of  *)
(* a grad_fn: the cell g it belongs to, the grad it was called with, the    *)
(* cells it holds mutably borrowed (held) and, for the call made by         *)
(* Backward::backward, the cell that call holds borrowed (shared).          *)

\* what a grad_fn closure is: its kind and the cells it captured
Nop == [tag |-> "nop", left |-> 0, right |-> 0]
GradFn(tag, left, right) == [tag |-> tag, left |-> left, right |-> right]

\* TensorData { last, grad_fn, ..TensorData::default() }
TensorData(data, grad_fn) == [last |-> data, grad |-> R(0), grad_fn |-> grad_fn]

\* a tensor of tensor.rs on a new cell, appended to the arena ns
Wrapped(ns, mat, grad_fn) ==
    [tensor |-> [size |-> mat.size, data |-> mat.data, metadata |-> Len(ns) + 1],
     node   |-> TensorData(mat.data, grad_fn)]

\* the cells whose grad_fn a closure calls, in order
Calls(fn) ==
    IF fn.tag \in {"Add", "Mul"} THEN <<fn.left, fn.right>> ELSE <<>>

\* the cells that the live calls keep borrowed
Live(stk) ==
    UNION {stk[k].held \cup stk[k].shared : k \in 1..Len(stk)}

\* metadata.borrow_mut().grad += grad on cell m
GradPlus(ns, m, grad) == [ns EXCEPT ![m].grad = RAdd(@, grad)]

\* A call of the grad_fn of cell g with `grad`, made on the arena ns with
\* the calls stk live and the caller holding `shared` borrowed, run up to
\* its first call of an operand's grad_fn.  borrow_mut aborts (BorrowMutError)
\* on a cell that is borrowed.
CallGradFn(ns, g, grad, stk, shared) ==
    LET fn == ns[g].grad_fn
        left == fn.left
        right == fn.right
        live == Live(stk) \cup shared
        frame(held) == [g |-> g, pc |-> 1, grad |-> grad,
                        held |-> held, shared |-> shared]
        done(ns2, held) ==
            /\ nodes' = ns2
            /\ err' = "ok"
            /\ stack' = Append(stk, frame(held))
        fail(ns2) ==
            /\ nodes' = ns2
            /\ err' = "panic"
            /\ stack' = stk
    IN  CASE fn.tag = "nop" -> done(ns, {})
          [] fn.tag = "Neg" ->
                IF left \in live THEN fail(ns)
                ELSE done(GradPlus(ns, left, RNeg(grad)), {})
          [] fn.tag = "Add" ->
                IF left \in live THEN fail(ns)
                ELSE IF right \in live \cup {left} THEN fail(ns)
                ELSE done(GradPlus(GradPlus(ns, left, grad), right, grad),
                          {left, right})
          [] fn.tag = "Mul" ->
                IF left \in live THEN fail(ns)
                ELSE IF right \in live
                     THEN fail(GradPlus(ns, left, grad))
                ELSE LET once == GradPlus(GradPlus(ns, left, grad), right, grad)
                     IN  IF right = left THEN fail(once)
                         ELSE done(GradPlus(GradPlus(once, left, grad), right, grad),
                                   {left, right})

\* Backward for &Tensor: borrows the tensor's cell, prints its name and
\* grad, and calls its grad_fn with its grad
GradFnBackward(i) ==
    /\ Idle
    /\ i \in 1..Len(tensors)
    /\ LET g == tensors[i].metadata
       IN  /\ CallGradFn(nodes, g, nodes[g].grad, <<>>, {g})
           /\ log' = Append(log, g)
    /\ UNCHANGED tensors

\* the innermost live grad_fn calls the grad_fn of its next operand
GradFnDescend ==
    /\ err = "ok"
    /\ stack # <<>>
    /\ LET top == stack[Len(stack)]
           cs == Calls(nodes[top.g].grad_fn)
       IN  /\ top.pc <= Len(cs)
           /\ CallGradFn(nodes, cs[top.pc], top.grad,
                         [stack EXCEPT ![Len(stack)].pc = top.pc + 1], {})
    /\ UNCHANGED <<tensors, log, pc>>

\* the innermost live grad_fn returns, and its borrows end
GradFnReturn ==
    /\ err = "ok"
    /\ stack # <<>>
    /\ LET top == stack[Len(stack)]
       IN  top.pc > Len(Calls(nodes[top.g].grad_fn))
    /\ stack' = SubSeq(stack, 1, Len(stack) - 1)
    /\ UNCHANGED <<nodes, tensors, log, err, pc>>

\* Tensor::singleton(v)
OldSingleton(v) ==
    /\ Idle
    /\ Push(Wrapped(nodes, Singleton(R(v)), Nop))

\* -&t
OldNeg(i) ==
    /\ Idle
    /\ i \in 1..Len(tensors)
    /\ LET self == tensors[i]
       IN  Push(Wrapped(nodes, [size |-> self.size, data |-> NegData(self)],
                        GradFn("Neg", self.metadata, 0)))

\* &t + &u
OldAdd(i, j) ==
    /\ Idle
    /\ {i, j} \subseteq 1..Len(tensors)
    /\ LET self == tensors[i]
           right == tensors[j]
       IN  IF self.size # right.size THEN Abort
           ELSE Push(Wrapped(nodes, [size |-> self.size, data |-> AddData(self, right)],
                             GradFn("Add", self.metadata, right.metadata)))

\* &t - &u: (self + &(-right)).named(name), the negation on a cell of its own
OldSub(i, j) ==
    /\ Idle
    /\ {i, j} \subseteq 1..Len(tensors)
    /\ LET self == tensors[i]
           right == tensors[j]
           neg == Wrapped(nodes, [size |-> right.size, data |-> NegData(right)],
                          GradFn("Neg", right.metadata, 0))
           ns == Append(nodes, neg.node)
       IN  IF self.size # right.size
           THEN /\ nodes' = ns
                /\ err' = "panic"
                /\ UNCHANGED <<tensors, stack, log>>
           ELSE LET sum == Wrapped(ns, [size |-> self.size,
                                        data |-> AddData(self, neg.tensor)],
                                   GradFn("Add", self.metadata, neg.tensor.metadata))
                IN  /\ nodes' = Append(ns, sum.node)
                    /\ tensors' = Append(tensors, sum.tensor)
                    /\ UNCHANGED <<stack, log, err>>

\* &t * &u
OldMul(i, j) ==
    /\ Idle
    /\ {i, j} \subseteq 1..Len(tensors)
    /\ LET self == tensors[i]
           right == tensors[j]
       IN  IF self.size[2] # right.size[1] THEN Abort
           ELSE Push(Wrapped(nodes, [size |-> <<self.size[1], right.size[2]>>,
                                     data |-> MulData(self, right)],
                             GradFn("Mul", self.metadata, right.metadata)))

\* Tensor::set_grad(&self, grad: f64)
OldSetGrad(i, grad) ==
    /\ Idle
    /\ i \in 1..Len(tensors)
    /\ nodes' = [nodes EXCEPT ![tensors[i].metadata].grad = grad]
    /\ UNCHANGED <<tensors, stack, log, err>>

----------------------------------------------------------------------------
(* Specification SpecGradFn: a caller of tensor.rs builds a graph of up to  *)
(* MaxNodes cells from singletons with -, + and *, gives one tensor a grad  *)
(* and calls backward on it.  pc: 0 while it builds, 1 once a grad is set,  *)
(* 2 once backward is called.                                               *)

GradFnInit ==
    /\ nodes = <<>>
    /\ tensors = <<>>
    /\ stack = <<>>
    /\ log = <<>>
    /\ err = "ok"
    /\ pc = 0

\* room for k more cells
GradFnBuilding(k) == pc = 0 /\ Len(nodes) + k <= MaxNodes /\ pc' = 0

GradFnNewLeaf == \E v \in LeafVals : GradFnBuilding(1) /\ OldSingleton(v)
GradFnNewNeg == \E i \in 1..Len(tensors) : GradFnBuilding(1) /\ OldNeg(i)
GradFnNewAdd == \E i, j \in 1..Len(tensors) : GradFnBuilding(1) /\ OldAdd(i, j)
GradFnNewSub == \E i, j \in 1..Len(tensors) : GradFnBuilding(2) /\ OldSub(i, j)
GradFnNewMul == \E i, j \in 1..Len(tensors) : GradFnBuilding(1) /\ OldMul(i, j)
GradFnSeed ==
    \E i \in 1..Len(tensors) : \E v \in SeedVals :
        pc = 0 /\ OldSetGrad(i, R(v)) /\ pc' = 1
GradFnStart ==
    \E i \in 1..Len(tensors) : pc \in {0, 1} /\ GradFnBackward(i) /\ pc' = 2

GradFnNext ==
    \/ GradFnNewLeaf
    \/ GradFnNewNeg
    \/ GradFnNewAdd
    \/ GradFnNewSub
    \/ GradFnNewMul
    \/ GradFnSeed
    \/ GradFnStart
    \/ GradFnDescend
    \/ GradFnReturn

SpecGradFn == GradFnInit /\ [][GradFnNext]_vars

\* this step is a call of a grad_fn, by Backward::backward or by a live
\* grad_fn
CallsGradFn ==
    \/ \E i \in 1..Len(tensors) : GradFnBackward(i)
    \/ GradFnDescend

\* C21: no borrow failure during backward.  Under SpecGradFn, for every
\* graph built from singletons by -, + and *, a + a, a * a and tensors
\* reached along several paths included, no call of a grad_fn borrows a cell
\* mutably while a borrow of that cell is live: the call does not abort.
C21_NoBorrowFailure ==
    [][CallsGradFn => err' = "ok"]_vars

----------------------------------------------------------------------------
(* Specification SpecTranspose: the caller builds one tensor with          *)
(* from_vector, of up to MaxDim rows and columns (rows without cells and    *)
(* no rows included), and transposes it, and transposes the result.         *)

\* the values of the cells
CellVals == {-1, 0, 2}

\* the vectors of rows handed to from_vector
RowVectors ==
    UNION {[1..m -> [1..n -> {R(v) : v \in CellVals}]] :
              m \in 0..MaxDim, n \in 0..MaxDim}

\* t.transpose(), on the caller's i-th tensor
TransposeOp(i) ==
    /\ Idle
    /\ i \in 1..Len(tensors)
    /\ IF ~InBounds(tensors[i]) THEN Abort
       ELSE Push(Constructed(nodes, Transpose(tensors[i])))

TransposeInit ==
    /\ \E data \in RowVectors :
          LET a == Constructed(<<>>, FromVector(data))
          IN  /\ nodes = <<a.node>>
              /\ tensors = <<a.tensor>>
    /\ stack = <<>>
    /\ log = <<>>
    /\ err = "ok"
    /\ pc = 0

\* let b = a.transpose(); let c = b.transpose()
TransposeLast ==
    /\ Len(tensors) < 3
    /\ TransposeOp(Len(tensors))
    /\ UNCHANGED pc

TransposeNext == TransposeLast

SpecTranspose == TransposeInit /\ [][TransposeNext]_vars

\* C22: for a of shape m x n, transpose(a) has shape n x m and
\* transpose(a)[i][j] = a[j][i]; and transpose(transpose(a)) == a.
C22_TransposeInvolution ==
    LET a == tensors[1]
    IN  /\ err = "ok"
        /\ Len(tensors) >= 2 =>
              LET b == tensors[2]
              IN  /\ b.size = <<a.size[2], a.size[1]>>
                  /\ Len(b.data) = a.size[2]
                  /\ \A i \in 1..a.size[2] :
                        /\ Len(b.data[i]) = a.size[1]
                        /\ \A j \in 1..a.size[1] : b.data[i][j] = a.data[j][i]
        /\ Len(tensors) >= 3 => TensorEq(tensors[3], a)

\* a = [[-1, 2]] has been transposed twice
C22_Witness ==
    /\ Len(tensors) = 3
    /\ tensors[1].data = <<<<R(-1), R(2)>>>>
    /\ tensors[2].data = <<<<R(-1)>>, <<R(2)>>>>
    /\ tensors[3].data = <<<<R(-1), R(2)>>>>

----------------------------------------------------------------------------
(* Claims settled under SpecNN: the cached forward value *)

\* C24: in every reachable state, for every tensor the caller holds whose
\* node has gradient tracking (the parameters after Optimizer::step's
\* in-place update included), last() is the tensor's current value: the
\* same size and the same cells.
C24_LastIsCurrentData ==
    \A i \in 1..Len(tensors) :
        nodes[tensors[i].gradient].value.some =>
            Last(nodes, tensors[i]) = ValueOf(tensors[i])

----------------------------------------------------------------------------
(* Specification SpecTerm: the caller makes up to MaxHeld 1x1 tensors by    *)
(* any sequence of singleton, clone, -, + and *, calling with_grad and      *)
(* set_grad on them as it goes, and then seeds one of them and calls        *)
(* backward on it.  pc: 0 before the pass, 1 once it has started.           *)
(* SpecTermLive adds that a live call of backward goes on running.          *)

\* how many tensors the caller comes to hold
MaxHeld == MaxNodes - 1

TermInit ==
    /\ nodes = <<>>
    /\ tensors = <<>>
    /\ stack = <<>>
    /\ log = <<>>
    /\ err = "ok"
    /\ pc = 0

\* the caller is about to hold one more tensor
TermMaking == pc = 0 /\ Len(tensors) < MaxHeld /\ pc' = 0

TermSingleton ==
    TermMaking /\ Idle /\ Push(Constructed(nodes, Singleton(R(2))))
TermClone == \E i \in 1..Len(tensors) : TermMaking /\ CloneOp(i)
TermNeg == \E i \in 1..Len(tensors) : TermMaking /\ NegOp(i)
TermAdd == \E i, j \in 1..Len(tensors) : TermMaking /\ AddOp(i, j)
TermMul == \E i, j \in 1..Len(tensors) : TermMaking /\ MulOp(i, j)
\* with_grad on a tensor that has no gradient yet
TermWithGrad ==
    \E i \in 1..Len(tensors) :
        /\ pc = 0
        /\ ~nodes[tensors[i].gradient].value.some
        /\ WithGradOp(i)
        /\ pc' = 0
\* set_grad with a zero gradient
TermSetGrad ==
    \E i \in 1..Len(tensors) : pc = 0 /\ SetGrad(i, Singleton(R(0))) /\ pc' = 0
\* set_grad(1) and backward, as the tests start a pass
TermBackward ==
    \E i \in 1..Len(tensors) :
        pc = 0 /\ SeedBackward(i, Singleton(R(1))) /\ pc' = 1

TermNext ==
    \/ TermSingleton
    \/ TermClone
    \/ TermNeg
    \/ TermAdd
    \/ TermMul
    \/ TermWithGrad
    \/ TermSetGrad
    \/ TermBackward
    \/ Descend
    \/ Return

SpecTerm == TermInit /\ [][TermNext]_vars

\* a call of backward is live and the program has not aborted: exactly the
\* states in which Descend or Return can be taken (the innermost call either
\* has a parent left to enter or has none and returns)
Running == err = "ok" /\ stack # <<>>

\* The program is one thread: a live call of backward is never suspended, it
\* takes its next step. This is weak fairness of the pass's steps,
\* WF_vars(Descend \/ Return), written out with the enabling condition given
\* as the state predicate Running.
SpecTermLive ==
    /\ SpecTerm
    /\ ([]<>~Running \/ []<><<Descend \/ Return>>_vars)

\* every operand in a tag is on a node made before the tag's node
TagsPointBack ==
    \A g \in 1..Len(nodes) :
        LET ps == Parents(nodes[g].operation)
        IN  \A k \in 1..Len(ps) : ps[k].gradient \in 1..(g - 1)

\* no step changes the tag of a node that exists
TagsFixed ==
    \A g \in 1..Len(nodes) : nodes'[g].operation = nodes[g].operation

\* C25: a node's tag is fixed when the node is made and names only nodes
\* made before it, so the parent relation has no cycle; and a backward pass,
\* once started, comes to its end after finitely many recursive calls: every
\* live call returns (or the program aborts).
C25_BackwardTerminates ==
    /\ [][TagsFixed]_vars
    /\ []TagsPointBack
    /\ (stack # <<>>) ~> (stack = <<>> \/ err = "panic")

\* a = singleton(2) with a gradient, y = a + a, z = y * y: the pass from z
\* entered y twice and a four times, and has returned
C25_Witness ==
    /\ pc = 1 /\ Idle
    /\ Len(nodes) = 3
    /\ nodes[2].operation.tag = "Add" /\ nodes[3].operation.tag = "Mul"
    /\ log = <<3, 2, 1, 1, 2, 1, 1>>

----------------------------------------------------------------------------
(* C26: Linear::forward and the gradients of the parameters *)

\* the gradient of parameter p is the all-zero tensor of p's own shape
GradientIsZeros(ns, p) ==
    ns[p.gradient].value = Some(Zeros(p.size[1], p.size[2]))

\* C26: a call of Linear::forward leaves the gradient of the weights and of
\* the bias as the all-zero tensor of the parameter's own shape, whatever it
\* held before (what a pass accumulated, the 1x1 zero of Module::reset_grad),
\* also when the call then aborts; and Optimizer::step called while both
\* gradients are such zeros (as after a forward that followed the pass)
\* does not abort and leaves every parameter's cells as they were.
C26_ForwardResetsGradients ==
    /\ [][NNForward =>
              /\ GradientIsZeros(nodes', tensors[1])
              /\ GradientIsZeros(nodes', tensors[2])]_vars
    /\ [][(/\ GradientIsZeros(nodes, tensors[1])
            /\ GradientIsZeros(nodes, tensors[2])
            /\ NNStep) => (tensors' = tensors /\ err' = "ok")]_vars

\* Linear(1, 1) with a tracked input: forward, backward from the output
\* (the input's gradient is no longer zero), forward again, step: the
\* weights and the bias are still the ones of Linear::new
C26_Witness ==
    /\ Idle
    /\ pc = 1
    /\ Len(tensors) = 5
    /\ log # <<>>
    /\ nodes[tensors[4].gradient].value = Some(Singleton(R(1)))
    /\ nodes[tensors[5].gradient].value = Some(Zeros(1, 1))
    /\ nodes[tensors[3].gradient].value.some
    /\ nodes[tensors[3].gradient].value.t # Zeros(tensors[3].size[1], tensors[3].size[2])
    /\ tensors[1] = LinearNew(<<>>, 1, 1).weights
    /\ tensors[2] = LinearNew(<<>>, 1, 1).bias

====
